---------------------------- MODULE Spec2Model ----------------------------
(***************************************************************************)
(* Export Cutlist (Fusion 360 add-in): the cut list aggregation of         *)
(* ExportCutlist.py and the minimal bounding box heuristic of              *)
(* lib/geometry.                                                           *)
(*                                                                         *)
(* Numbers.  Lengths are integers.  A body is described in its own frame   *)
(* with integer coordinates; a pose is a rotation matrix scaled by Scale   *)
(* (its entries are integers, its columns have norm Scale), so that the    *)
(* 3-4-5 rotations are exact.  Unit vectors are integer vectors of norm    *)
(* Scale.  A bounding box extent is a support difference along such a      *)
(* vector of points scaled by Scale: every extent, every Dimensions field  *)
(* and the tolerance are in units of 1/(Scale*Scale) of a body unit.       *)
(***************************************************************************)
EXTENDS Integers, Sequences, FiniteSets, TLC

VARIABLES
    preferences,    \* ExportCutlist.preferences (module-level dict)
    tolerance,      \* Dimensions.tolerance (class attribute)
    cutlist,        \* the CutList of the running notify(), or NoCutList
    selection,      \* the entities of the selection input
    idx,            \* loop index i of notify() (0-based), next entity to add
    pc,             \* position of CutlistCommandExecuteHandler.notify
    ui,             \* what the user has been shown / what was written
    input,          \* argument of the function under test (function specs)
    output          \* its result

vars == <<preferences, tolerance, cutlist, selection, idx, pc, ui, input, output>>

-----------------------------------------------------------------------------
(* Bounds *)

MaxSel == 2         \* longest selection

\* the Pythagorean triple of the exact rotations; its hypotenuse is the norm
\* of a unit vector in the integer encoding
Pyth == <<3, 4, 5>>
Scale == Pyth[3]
Scale2 == Scale * Scale

\* DEFAULT_TOLERANCE = 1e-04: a body unit is half of it, and the tolerance is
\* counted like the extents, in units of 1/Scale2 of a body unit
DEFAULT_TOLERANCE == 50

-----------------------------------------------------------------------------
(* adsk.core.Vector3D / Point3D arithmetic on integer triples *)

Abs(n) == IF n < 0 THEN -n ELSE n

Dot(a, b) == a[1] * b[1] + a[2] * b[2] + a[3] * b[3]

crossProduct(a, b) ==
    << a[2] * b[3] - a[3] * b[2],
       a[3] * b[1] - a[1] * b[3],
       a[1] * b[2] - a[2] * b[1] >>

vectorTo(p, q) == << q[1] - p[1], q[2] - p[2], q[3] - p[3] >>

\* the integer vectors of norm Scale: the axes and the 3-4-5 directions
UnitVecs ==
    LET a == Pyth[1]
        b == Pyth[2]
        base == { <<Scale, 0, 0>>, <<0, Scale, 0>>, <<0, 0, Scale>>,
                  <<a, b, 0>>, <<b, a, 0>>, <<a, 0, b>>, <<b, 0, a>>,
                  <<0, a, b>>, <<0, b, a>> }
    IN  { <<s[1] * u[1], s[2] * u[2], s[3] * u[3]>> :
            s \in {-1, 1} \X {-1, 1} \X {-1, 1}, u \in base }

ZeroVec == <<0, 0, 0>>

\* Vector3D.normalize(): the unit vector with the direction of v.  Of the zero
\* vector (or of a direction with no rational unit vector) there is none.
HasUnit(v) == \E u \in UnitVecs : crossProduct(u, v) = ZeroVec /\ Dot(u, v) > 0

normalize(v) == CHOOSE u \in UnitVecs : crossProduct(u, v) = ZeroVec /\ Dot(u, v) > 0

\* M * v for a 3x3 matrix given by its rows
MatVec(M, v) == << Dot(M[1], v), Dot(M[2], v), Dot(M[3], v) >>

\* integer square root of a perfect square
ISqrt(n) == CHOOSE k \in 0 .. Scale2 : k * k = n

Max(S) == CHOOSE x \in S : \A y \in S : y <= x
Min(S) == CHOOSE x \in S : \A y \in S : x <= y

Range(s) == { s[i] : i \in 1 .. Len(s) }

-----------------------------------------------------------------------------
(* lib/geometry/vectors.py *)

\* first index i with varr[i] != 0, or 0
FirstNonZero(varr) ==
    IF varr[1] # 0 THEN 1 ELSE IF varr[2] # 0 THEN 2 ELSE IF varr[3] # 0 THEN 3 ELSE 0

construct_perpedicular(v) ==
    LET i == FirstNonZero(v)
        j == IF i = 0 THEN 0 ELSE (i % 3) + 1       \* (i + 1) % 3, 1-based
        parr == IF i = 0 THEN ZeroVec
                ELSE [k \in 1 .. 3 |-> IF k = j THEN v[i]
                                       ELSE IF k = i THEN 0 - v[j] ELSE 0]
    IN  normalize(<<parr[1], parr[2], parr[3]>>)

-----------------------------------------------------------------------------
(* The host's B-rep data (adsk.fusion), as far as the add-in reads it.      *)
(*                                                                         *)
(* edge : [tempId, curveType, length, start, end, normal, majorAxis]       *)
(* loop : [isOuter, edges]                                                 *)
(* face : [surfaceType, area, normal (at the centroid), loops]             *)
(* shape: [faces, edges, convexEdges, support], in the body's own frame,   *)
(* the loops and convexEdges naming edges by tempId; Place resolves them.  *)
(* support: the solid is the hull of discs [c, r, n] (centre, radius,      *)
(* normal); a point is a disc of radius 0, a ball has n = ZeroVec.         *)

LinearTypes == {"Line3DCurveType", "InfiniteLine3DCurveType"}

Edge(id, type, len, s, e, n, maj) ==
    [tempId |-> id, curveType |-> type, length |-> len,
     start |-> s, end |-> e, normal |-> n, majorAxis |-> maj]

LineEdge(id, s, e) ==
    Edge(id, "Line3DCurveType", Abs(e[1] - s[1]) + Abs(e[2] - s[2]) + Abs(e[3] - s[3]),
         s, e, ZeroVec, ZeroVec)

Loop(outer, es) == [isOuter |-> outer, edges |-> es]

Face(type, area, n, loops) ==
    [surfaceType |-> type, area |-> area, normal |-> n, loops |-> loops]

Pt(p) == [c |-> p, r |-> 0, n |-> ZeroVec]

\* a cuboid l x w x h with a corner at the origin
BoxShape(l, w, h) ==
    [ faces |-> <<
        Face("PlaneSurfaceType", l * w, <<0, 0, -1>>, << Loop(TRUE, <<1, 2, 3, 4>>) >>),
        Face("PlaneSurfaceType", l * w, <<0, 0, 1>>,  << Loop(TRUE, <<5, 6, 7, 8>>) >>),
        Face("PlaneSurfaceType", l * h, <<0, -1, 0>>, << Loop(TRUE, <<1, 10, 5, 9>>) >>),
        Face("PlaneSurfaceType", l * h, <<0, 1, 0>>,  << Loop(TRUE, <<3, 12, 7, 11>>) >>),
        Face("PlaneSurfaceType", w * h, <<-1, 0, 0>>, << Loop(TRUE, <<4, 9, 8, 12>>) >>),
        Face("PlaneSurfaceType", w * h, <<1, 0, 0>>,  << Loop(TRUE, <<2, 11, 6, 10>>) >>) >>,
      edges |-> <<
        LineEdge(1, <<0, 0, 0>>, <<l, 0, 0>>), LineEdge(2, <<l, 0, 0>>, <<l, w, 0>>),
        LineEdge(3, <<l, w, 0>>, <<0, w, 0>>), LineEdge(4, <<0, w, 0>>, <<0, 0, 0>>),
        LineEdge(5, <<0, 0, h>>, <<l, 0, h>>), LineEdge(6, <<l, 0, h>>, <<l, w, h>>),
        LineEdge(7, <<l, w, h>>, <<0, w, h>>), LineEdge(8, <<0, w, h>>, <<0, 0, h>>),
        LineEdge(9, <<0, 0, 0>>, <<0, 0, h>>), LineEdge(10, <<l, 0, 0>>, <<l, 0, h>>),
        LineEdge(11, <<l, w, 0>>, <<l, w, h>>), LineEdge(12, <<0, w, 0>>, <<0, w, h>>) >>,
      convexEdges |-> <<1, 2, 3, 4, 5, 6, 7, 8, 9, 10, 11, 12>>,
      support |-> { Pt(<<x, y, z>>) : x \in {0, l}, y \in {0, w}, z \in {0, h} } ]

\* a closed spline profile extruded by h: two planar caps, each bounded by one
\* NURBS edge, and one NURBS side face with a straight seam
SplinePrismShape(h) ==
    [ faces |-> <<
        Face("PlaneSurfaceType", 20, <<0, 0, -1>>, << Loop(TRUE, <<1>>) >>),
        Face("PlaneSurfaceType", 20, <<0, 0, 1>>,  << Loop(TRUE, <<2>>) >>),
        Face("NurbsSurfaceType", 18 * h, <<0, -1, 0>>, << Loop(TRUE, <<1, 3, 2, 3>>) >>) >>,
      edges |-> <<
        Edge(1, "NurbsCurve3DCurveType", 18, <<0, 0, 0>>, <<0, 0, 0>>, ZeroVec, ZeroVec),
        Edge(2, "NurbsCurve3DCurveType", 18, <<0, 0, h>>, <<0, 0, h>>, ZeroVec, ZeroVec),
        LineEdge(3, <<0, 0, 0>>, <<0, 0, h>>) >>,
      convexEdges |-> <<1, 2>>,
      support |-> { Pt(<<x[1], x[2], z>>) :
                      x \in {<<0, 0>>, <<6, 1>>, <<7, 4>>, <<2, 5>>}, z \in {0, h} } ]

\* a profile between a straight edge of length l and a spline of length 2l
\* over it, extruded by h: two planar caps, each bounded by the line and the
\* spline, a planar side under the line and a NURBS side along the spline
ArchShape(l, d, h) ==
    [ faces |-> <<
        Face("PlaneSurfaceType", l * d, <<0, 0, -1>>, << Loop(TRUE, <<2, 1>>) >>),
        Face("PlaneSurfaceType", l * d, <<0, 0, 1>>,  << Loop(TRUE, <<4, 3>>) >>),
        Face("PlaneSurfaceType", l * h, <<0, -1, 0>>, << Loop(TRUE, <<1, 6, 3, 5>>) >>),
        Face("NurbsSurfaceType", 2 * l * h, <<0, 1, 0>>, << Loop(TRUE, <<2, 6, 4, 5>>) >>) >>,
      edges |-> <<
        LineEdge(1, <<0, 0, 0>>, <<l, 0, 0>>),
        Edge(2, "NurbsCurve3DCurveType", 2 * l, <<l, 0, 0>>, <<0, 0, 0>>, ZeroVec, ZeroVec),
        LineEdge(3, <<0, 0, h>>, <<l, 0, h>>),
        Edge(4, "NurbsCurve3DCurveType", 2 * l, <<l, 0, h>>, <<0, 0, h>>, ZeroVec, ZeroVec),
        LineEdge(5, <<0, 0, 0>>, <<0, 0, h>>), LineEdge(6, <<l, 0, 0>>, <<l, 0, h>>) >>,
      convexEdges |-> <<1, 2, 3, 4, 5, 6>>,
      support |-> { Pt(<<x[1], x[2], z>>) :
                      x \in {<<0, 0>>, <<l, 0>>, <<l - 1, d>>, <<1, d>>}, z \in {0, h} } ]

\* a circle of radius r swept along the slanted segment (0,0,0)-(sx,0,h): two
\* disc caps, each bounded by one full circle, and an elliptic-cylinder side
SkewCylinderShape(r, sx, h) ==
    [ faces |-> <<
        Face("PlaneSurfaceType", 3 * r * r, <<0, 0, -1>>, << Loop(TRUE, <<1>>) >>),
        Face("PlaneSurfaceType", 3 * r * r, <<0, 0, 1>>,  << Loop(TRUE, <<2>>) >>),
        Face("EllipticalCylinderSurfaceType", 6 * r * h, <<0, -1, 0>>,
             << Loop(TRUE, <<1, 2>>) >>) >>,
      edges |-> <<
        Edge(1, "Circle3DCurveType", 6 * r, <<r, 0, 0>>, <<r, 0, 0>>, <<0, 0, 1>>, ZeroVec),
        Edge(2, "Circle3DCurveType", 6 * r, <<sx + r, 0, h>>, <<sx + r, 0, h>>,
             <<0, 0, 1>>, ZeroVec) >>,
      convexEdges |-> <<1, 2>>,
      support |-> { [c |-> <<0, 0, 0>>, r |-> r, n |-> <<0, 0, 1>>],
                    [c |-> <<sx, 0, h>>, r |-> r, n |-> <<0, 0, 1>>] } ]

\* a capsule: a cylinder of radius r between two hemispheres; no planar face,
\* and the two circles where the faces meet are tangent, not convex
CapsuleShape(l, r) ==
    [ faces |-> <<
        Face("CylinderSurfaceType", 6 * r * l, <<0, -1, 0>>, << Loop(TRUE, <<1, 2>>) >>),
        Face("SphereSurfaceType", 6 * r * r, <<-1, 0, 0>>, << Loop(TRUE, <<1>>) >>),
        Face("SphereSurfaceType", 6 * r * r, <<1, 0, 0>>,  << Loop(TRUE, <<2>>) >>) >>,
      edges |-> <<
        Edge(1, "Circle3DCurveType", 6 * r, <<0, r, 0>>, <<0, r, 0>>, <<1, 0, 0>>, ZeroVec),
        Edge(2, "Circle3DCurveType", 6 * r, <<l, r, 0>>, <<l, r, 0>>, <<1, 0, 0>>, ZeroVec) >>,
      convexEdges |-> << >>,
      support |-> { [c |-> <<0, 0, 0>>, r |-> r, n |-> ZeroVec],
                    [c |-> <<l, 0, 0>>, r |-> r, n |-> ZeroVec] } ]

\* Rotations, scaled by Scale (rows).  Identity, quarter turn and the two 3-4-5
\* turns about z, the cyclic axis permutation, and a 3-4-5 turn about x.
Poses ==
    [ id   |-> << <<5, 0, 0>>, <<0, 5, 0>>, <<0, 0, 5>> >>,
      z90  |-> << <<0, -5, 0>>, <<5, 0, 0>>, <<0, 0, 5>> >>,
      z53  |-> << <<3, -4, 0>>, <<4, 3, 0>>, <<0, 0, 5>> >>,
      z37  |-> << <<4, -3, 0>>, <<3, 4, 0>>, <<0, 0, 5>> >>,
      cyc  |-> << <<0, 0, 5>>, <<5, 0, 0>>, <<0, 5, 0>> >>,
      x53  |-> << <<5, 0, 0>>, <<0, 3, -4>>, <<0, 4, 3>> >> ]

PoseNames == DOMAIN Poses

\* the shape as the host presents it once placed in the design with rotation M:
\* points are scaled by Scale, directions become unit vectors of norm Scale
PlaceEdge(e, M) ==
    [e EXCEPT !.start = MatVec(M, @), !.end = MatVec(M, @),
              !.normal = MatVec(M, @), !.majorAxis = MatVec(M, @)]

PlaceEdges(ids, shape, M) ==
    [k \in 1 .. Len(ids) |-> PlaceEdge(shape.edges[ids[k]], M)]

Place(shape, M) ==
    [ faces |-> [i \in 1 .. Len(shape.faces) |->
                   [shape.faces[i] EXCEPT
                      !.normal = MatVec(M, @),
                      !.loops = [j \in 1 .. Len(@) |->
                                   [@[j] EXCEPT !.edges = PlaceEdges(@, shape, M)]]]],
      convexEdges |-> PlaceEdges(shape.convexEdges, shape, M),
      support |-> { [c |-> MatVec(M, d.c), r |-> d.r, n |-> MatVec(M, d.n)] :
                      d \in shape.support } ]

\* BoundingBox3D of a solid in the frame (ex, ey, ez) of unit vectors
HalfWidth(d, u) ==
    IF d.r = 0 THEN 0 ELSE d.r * ISqrt(Scale2 * Scale2 - Dot(d.n, u) * Dot(d.n, u))

SupportMax(support, u) == Max({ Dot(d.c, u) + HalfWidth(d, u) : d \in support })
SupportMin(support, u) == Min({ Dot(d.c, u) - HalfWidth(d, u) : d \in support })

BoundingBoxIn(support, ex, ey, ez) ==
    [ minPoint |-> << SupportMin(support, ex), SupportMin(support, ey),
                      SupportMin(support, ez) >>,
      maxPoint |-> << SupportMax(support, ex), SupportMax(support, ey),
                      SupportMax(support, ez) >> ]

target_x == <<Scale, 0, 0>>
target_y == <<0, Scale, 0>>
target_z == <<0, 0, Scale>>

\* BRepBody.boundingBox: the axis-aligned box
boundingBox(support) == BoundingBoxIn(support, target_x, target_y, target_z)

-----------------------------------------------------------------------------
(* lib/geometry/edges.py *)

None == [none |-> TRUE]

\* keys of _orientable_curve_types
OrientableTypes ==
    {"Arc3DCurveType", "Circle3DCurveType", "Ellipse3DCurveType",
     "EllipticalArc3DCurveType", "InfiniteLine3DCurveType", "Line3DCurveType"}

is_orientable_edge(edge) == edge.curveType \in OrientableTypes

is_linear_edge(edge) == edge.curveType \in LinearTypes

_start_end_orientation(edge) == normalize(vectorTo(edge.start, edge.end))

\* [raised, value]: the orientation, or the ValueError of an unsupported type
get_edge_orientation(edge) ==
    IF edge.curveType \notin OrientableTypes
    THEN [raised |-> "ValueError", value |-> ZeroVec]
    ELSE [raised |-> "",
          value |-> CASE edge.curveType = "Circle3DCurveType" ->
                            construct_perpedicular(edge.normal)
                      [] edge.curveType = "Ellipse3DCurveType" ->
                            normalize(edge.majorAxis)
                      [] OTHER -> _start_end_orientation(edge)]

-----------------------------------------------------------------------------
(* lib/geometry/bodies.py *)

\* a faulty HashableEdge: the edges are compared as objects, not by tempId
edgesetByHandle(edges) == { edges[i] : i \in 1 .. Len(edges) }

\* set(HashableEdge(edge) for edge in edges): equality and hash by tempId
edgeset(edges) == { edges[i].tempId : i \in 1 .. Len(edges) }

RECURSIVE ConcatLoops(_, _, _)
ConcatLoops(loops, i, outerOnly) ==
    IF i > Len(loops) THEN << >>
    ELSE (IF outerOnly /\ ~loops[i].isOuter THEN << >> ELSE loops[i].edges)
         \o ConcatLoops(loops, i + 1, outerOnly)

get_outer_edges(face) == ConcatLoops(face.loops, 1, TRUE)

\* BRepFace.edges: the edges of all the loops
FaceEdges(face) == ConcatLoops(face.loops, 1, FALSE)

is_planar_face(face, edges) ==
    IF face.surfaceType = "PlaneSurfaceType"
    THEN edgeset(get_outer_edges(face)) \subseteq edges
    ELSE FALSE

RECURSIVE LargestFaceLoop(_, _, _, _)
LargestFaceLoop(faces, i, convex_edges, largest_face) ==
    IF i > Len(faces) THEN largest_face
    ELSE LET f == faces[i] IN
         IF ~is_planar_face(f, convex_edges)
         THEN LargestFaceLoop(faces, i + 1, convex_edges, largest_face)
         ELSE IF largest_face = None \/ f.area > largest_face.area
         THEN LargestFaceLoop(faces, i + 1, convex_edges, f)
         ELSE LargestFaceLoop(faces, i + 1, convex_edges, largest_face)

find_largest_planar_convex_face(body) ==
    LargestFaceLoop(body.faces, 1, edgeset(body.convexEdges), None)

\* the loop of find_longest_orientable_edge; acc = <<linear, nonlinear>>
RECURSIVE LongestEdgeLoop(_, _, _)
LongestEdgeLoop(edges, i, acc) ==
    IF i > Len(edges) THEN acc
    ELSE LET e == edges[i] IN
         IF is_linear_edge(e)
         THEN LongestEdgeLoop(edges, i + 1,
                  IF acc[1] = None \/ e.length > acc[1].length
                  THEN <<e, acc[2]>> ELSE acc)
         ELSE IF is_orientable_edge(e)
         THEN LongestEdgeLoop(edges, i + 1,
                  IF acc[2] = None \/ e.length > acc[2].length
                  THEN <<acc[1], e>> ELSE acc)
         ELSE LongestEdgeLoop(edges, i + 1, acc)

\* a faulty line 104: the non-linear edge is preferred
find_longest_prefers_nonlinear(face) ==
    LET acc == LongestEdgeLoop(FaceEdges(face), 1, <<None, None>>)
    IN  IF acc[2] # None THEN acc[2] ELSE acc[1]

find_longest_orientable_edge(face) ==
    LET acc == LongestEdgeLoop(FaceEdges(face), 1, <<None, None>>)
    IN  IF acc[1] # None THEN acc[1] ELSE acc[2]

\* MinimalBody(body, bbox): bbox if bbox else body.boundingBox
MinimalBody(body, bbox) ==
    [ raised |-> "", material |-> body.material,
      boundingBox |-> IF bbox # None THEN bbox ELSE body.boundingBox,
      copied |-> bbox # None ]

Raise(exc) == [raised |-> exc]

\* Matrix3D.setToAlignCoordinateSystems(origin, ox, oy, oz, origin, X, Y, Z)
\* applied to a copy of the body: the copy's world coordinates are the body's
\* coordinates in the frame (ox, oy, oz), so its axis-aligned box is the body's
\* box in that frame.
TransformedCopyBox(body, ox, oy, oz) == BoundingBoxIn(body.support, ox, oy, oz)

\* get_minimal_body, lines 37-53
AlignedBody(body, orientation, normal) ==
    MinimalBody(body, TransformedCopyBox(body, orientation,
                                         normalize(crossProduct(orientation, normal)),
                                         normal))

\* get_minimal_body, lines 32-35, got the result of get_edge_orientation
Oriented(body, got, normal) ==
    IF got.raised # "" THEN Raise(got.raised)
    ELSE AlignedBody(body, got.value, normal)

\* get_minimal_body, lines 29-35.  "orientation = target_x" reads the local
\* target_x, which is assigned only further down (line 41): Python raises
\* UnboundLocalError there.
FromFace(body, face, edge) ==
    IF edge = None THEN Raise("UnboundLocalError")
    ELSE Oriented(body, get_edge_orientation(edge), face.normal)

\* a faulty line 26-27: the body without a reference face is boxed in a copy
\* aligned with the world axes
FromLargestCopies(body, face) ==
    IF face = None THEN AlignedBody(body, target_x, target_z)
    ELSE FromFace(body, face, find_longest_orientable_edge(face))

\* get_minimal_body, lines 25-31
FromLargest(body, face) ==
    IF face = None THEN MinimalBody(body, None)
    ELSE FromFace(body, face, find_longest_orientable_edge(face))

\* a MinimalBody, or [raised |-> the exception]
get_minimal_body(body) == FromLargest(body, find_largest_planar_convex_face(body))

-----------------------------------------------------------------------------
(* Names.  A str is a sequence of tokens; "" and None are the empty         *)
(* sequence (both are falsy in _joinname).                                 *)

NoName == << >>

\* adsk.fusion.BRepBody
BRepBody(token, name, isSolid, isVisible, material, shape, pose) ==
    [ objectType |-> "adsk::fusion::BRepBody", entityToken |-> token,
      name |-> name, isSolid |-> isSolid,
      isVisible |-> isVisible, material |-> material,
      boundingBox |-> boundingBox(Place(shape, Poses[pose]).support) ]
    @@ Place(shape, Poses[pose])

-----------------------------------------------------------------------------
(* ExportCutlist.py: Dimensions *)

\* sorted(): insertion of x into an ascending sequence, after its equals
RECURSIVE InsertAsc(_, _)
InsertAsc(s, x) ==
    IF s = << >> THEN <<x>>
    ELSE IF x < Head(s) THEN <<x>> \o s
    ELSE <<Head(s)>> \o InsertAsc(Tail(s), x)

RECURSIVE sorted(_)
sorted(s) == IF s = << >> THEN << >>
             ELSE InsertAsc(sorted(SubSeq(s, 1, Len(s) - 1)), s[Len(s)])

\* a faulty Dimensions.__init__: the extents are stored as they come
DimensionsUnsorted(x, y, z) == [length |-> x, width |-> y, height |-> z]

\* Dimensions.__init__
Dimensions(x, y, z) ==
    LET ordered == sorted(<<x, y, z>>)
    IN  [length |-> ordered[3], width |-> ordered[2], height |-> ordered[1]]

\* Dimensions.from_body
from_body(body) ==
    LET bbox == body.boundingBox
        x == bbox.maxPoint[1] - bbox.minPoint[1]
        y == bbox.maxPoint[2] - bbox.minPoint[2]
        z == bbox.maxPoint[3] - bbox.minPoint[3]
    IN  Dimensions(x, y, z)

\* a faulty Dimensions.__eq__: the differences are compared without abs()
DimensionsEqSigned(self, other, tol) ==
    /\ self.length - other.length < tol
    /\ self.width - other.width < tol
    /\ self.height - other.height < tol

\* Dimensions.__eq__ under Dimensions.tolerance = tol
DimensionsEq(self, other, tol) ==
    /\ Abs(self.length - other.length) < tol
    /\ Abs(self.width - other.width) < tol
    /\ Abs(self.height - other.height) < tol

-----------------------------------------------------------------------------
(* ExportCutlist.py: CutListItem *)

\* CutListItem.__init__
CutListItem(body, name) ==
    [ names |-> <<name>>, dimensions |-> from_body(body), material |-> body.material ]

count(item) == Len(item.names)

\* a faulty CutListItem.matches: the material is compared whatever the flag
matchesMaterialToo(self, other, ignorematerial, tol) ==
    /\ DimensionsEq(self.dimensions, from_body(other), tol)
    /\ self.material = other.material

\* CutListItem.matches, other a MinimalBody
matches(self, other, ignorematerial, tol) ==
    /\ DimensionsEq(self.dimensions, from_body(other), tol)
    /\ (ignorematerial \/ self.material = other.material)

add_instance(self, name) == [self EXCEPT !.names = Append(@, name)]

-----------------------------------------------------------------------------
(* The design: the entities a selection can reach.  Occurrences and        *)
(* components name their bodies and child occurrences by id.               *)

Occurrence(compName, external, bodies, children) ==
    [ objectType |-> "adsk::fusion::Occurrence", componentName |-> compName,
      isReferencedComponent |-> external, bRepBodies |-> bodies,
      childOccurrences |-> children ]

Component(name, bodies, occs) ==
    [ objectType |-> "adsk::fusion::Component", name |-> name,
      bRepBodies |-> bodies, occurrences |-> occs ]

Design ==
    [ b1 |-> BRepBody("b1", <<"Leg">>,   TRUE,  TRUE,  "Oak",   BoxShape(10, 5, 2), "id"),
      b2 |-> BRepBody("b2", <<"Brace">>, TRUE,  TRUE,  "Steel", BoxShape(10, 5, 2), "z53"),
      b3 |-> BRepBody("b3", <<"Rail">>,  TRUE,  TRUE,  "Oak",   BoxShape(11, 5, 2), "cyc"),
      b4 |-> BRepBody("b4", <<"Stile">>, TRUE,  TRUE,  "Oak",   BoxShape(12, 5, 2), "id"),
      b5 |-> BRepBody("b5", <<"Jig">>,   TRUE,  FALSE, "Oak",   BoxShape(10, 5, 2), "z90"),
      b6 |-> BRepBody("b6", <<"Skin">>,  FALSE, TRUE,  "Oak",   BoxShape(12, 5, 2), "id"),
      b7 |-> BRepBody("b7", <<"Knob">>,  TRUE,  TRUE,  "Oak",   SplinePrismShape(3), "id"),
      b8 |-> BRepBody("b8", <<"Peg">>,   TRUE,  TRUE,  "Steel", SkewCylinderShape(2, 5, 3), "z53"),
      b9 |-> BRepBody("b9", <<"Pin">>,   TRUE,  TRUE,  "Steel", CapsuleShape(12, 2), "z37"),
      c1 |-> Component(<<"Frame">>, <<"b1", "b4", "b3">>, <<"o3">>),
      o3 |-> Occurrence(<<"Door">>,  FALSE, <<"b5", "b6", "b2">>, <<"o1">>),
      o1 |-> Occurrence(<<"Hinge">>, TRUE,  <<"b8">>, <<"o2">>),
      o2 |-> Occurrence(<<"Bolt">>,  FALSE, <<"b9", "b1">>, << >>),
      x1 |-> [ objectType |-> "adsk::fusion::SketchLine" ] ]

BodyIds == { id \in DOMAIN Design : Design[id].objectType = "adsk::fusion::BRepBody" }
OccurrenceIds == { id \in DOMAIN Design : Design[id].objectType = "adsk::fusion::Occurrence" }

\* what the user can put into the selection input
Selectable == {"b1", "b7", "o1", "o3", "c1", "x1"}

-----------------------------------------------------------------------------
(* ExportCutlist.py: CutList.  Its methods return [cl, raised]: the        *)
(* CutList after the call and the exception that left it ("" for none).    *)

\* CutList.__init__
CutList(ignorehidden, ignorematerial, ignoreexternal, axisaligned) ==
    [ items |-> << >>, ignorehidden |-> ignorehidden, ignorematerial |-> ignorematerial,
      ignoreexternal |-> ignoreexternal, axisaligned |-> axisaligned,
      namesep |-> <<"/">> ]

Ok(cl) == [cl |-> cl, raised |-> ""]

\* a faulty _joinname: namesep.join(parts), the empty parts kept
RECURSIVE JoinFromKeepsEmpty(_, _, _, _)
JoinFromKeepsEmpty(sep, parts, i, acc) ==
    IF i > Len(parts) THEN acc
    ELSE JoinFromKeepsEmpty(sep, parts, i + 1,
                            IF i = 1 THEN parts[i] ELSE acc \o sep \o parts[i])

\* CutList._joinname: namesep.join([p for p in parts if p])
RECURSIVE JoinFrom(_, _, _, _)
JoinFrom(sep, parts, i, acc) ==
    IF i > Len(parts) THEN acc
    ELSE IF parts[i] = << >> THEN JoinFrom(sep, parts, i + 1, acc)
    ELSE JoinFrom(sep, parts, i + 1,
                  IF acc = << >> THEN parts[i] ELSE acc \o sep \o parts[i])

_joinname(self, parts) == JoinFrom(self.namesep, parts, 1, << >>)

\* index of the first item of items[i..] matching minimal_body, or 0
RECURSIVE FirstMatch(_, _, _, _, _)
FirstMatch(items, i, minimal_body, ignorematerial, tol) ==
    IF i > Len(items) THEN 0
    ELSE IF matches(items[i], minimal_body, ignorematerial, tol) THEN i
    ELSE FirstMatch(items, i + 1, minimal_body, ignorematerial, tol)

\* the exception raised leaves the method; otherwise the CutList goes on
Raised(self, exc) == [cl |-> self, raised |-> exc]

\* add_body, lines 118-127, k the index of the first matching item or 0
FoldAt(self, k, minimal_body, name) ==
    IF k # 0
    THEN Ok([self EXCEPT !.items[k] = add_instance(@, name)])
    ELSE Ok([self EXCEPT !.items = Append(@, CutListItem(minimal_body, name))])

Fold(self, minimal_body, name, tol) ==
    IF minimal_body.raised # "" THEN Raised(self, minimal_body.raised)
    ELSE FoldAt(self, FirstMatch(self.items, 1, minimal_body, self.ignorematerial, tol),
                minimal_body, name)

\* add_body, lines 107-111: the bodies that return early
Skipped(self, body) == ~body.isSolid \/ (~body.isVisible /\ self.ignorehidden)

\* get_minimal_body(body) for the bodies of the design: it reads nothing but
\* the body, so one evaluation per body serves every call
minimal_bodies == [id \in BodyIds |-> get_minimal_body(Design[id])]

\* add_body, lines 113-116: the minimal body of a body of the design
minimal_body_of(self, body) ==
    IF self.axisaligned THEN MinimalBody(body, None)
    ELSE minimal_bodies[body.entityToken]

\* CutList.add_body, with Dimensions.tolerance = tol
add_body(self, body, name, tol) ==
    IF Skipped(self, body) THEN Ok(self)
    ELSE Fold(self, minimal_body_of(self, body), name, tol)

\* "for body in bodies: self.add_body(body, self._joinname(name, cname, body.name))"
RECURSIVE AddBodies(_, _, _, _, _, _), AddBodiesRest(_, _, _, _, _, _)
AddBodies(self, bodies, i, name, cname, tol) ==
    IF i > Len(bodies) THEN Ok(self)
    ELSE AddBodiesRest(add_body(self, Design[bodies[i]],
                                _joinname(self, <<name, cname, Design[bodies[i]].name>>), tol),
                       bodies, i, name, cname, tol)

AddBodiesRest(r, bodies, i, name, cname, tol) ==
    IF r.raised # "" THEN r ELSE AddBodies(r.cl, bodies, i + 1, name, cname, tol)

\* a faulty line 134: the ignoreexternal flag is not looked at
SkipsEveryExternal(self, obj) == obj.isReferencedComponent

\* line 134: an occurrence of an external component, with ignoreexternal
SkipsOccurrence(self, obj) == obj.isReferencedComponent /\ self.ignoreexternal

\* faulty lines 147-148: an entity of another kind is passed over in silence
UnsupportedIgnored(self, obj) == Ok(self)

\* lines 147-148: raise ValueError(f'Cannot add object with type: ...')
Unsupported(self, obj) == Raised(self, "ValueError")

\* CutList.add.  AddEach is "for x in xs: self.add(x, name)"; AddChildren is
\* that loop after the loop over the bodies, which an exception leaves.
RECURSIVE add(_, _, _, _), AddEach(_, _, _, _, _), AddEachRest(_, _, _, _, _),
          AddChildren(_, _, _, _)
add(self, obj, name, tol) ==
    CASE obj.objectType = "adsk::fusion::BRepBody" ->
            add_body(self, obj, _joinname(self, <<name, obj.name>>), tol)
      [] obj.objectType = "adsk::fusion::Occurrence" ->
            IF SkipsOccurrence(self, obj) THEN Ok(self)
            ELSE AddChildren(AddBodies(self, obj.bRepBodies, 1, name, obj.componentName, tol),
                             obj.childOccurrences,
                             _joinname(self, <<name, obj.componentName>>), tol)
      [] obj.objectType = "adsk::fusion::Component" ->
            AddChildren(AddBodies(self, obj.bRepBodies, 1, name, obj.name, tol),
                        obj.occurrences, _joinname(self, <<name, obj.name>>), tol)
      [] OTHER -> Unsupported(self, obj)

AddChildren(r, ids, name, tol) ==
    IF r.raised # "" THEN r ELSE AddEach(r.cl, ids, 1, name, tol)

AddEach(self, ids, i, name, tol) ==
    IF i > Len(ids) THEN Ok(self)
    ELSE AddEachRest(add(self, Design[ids[i]], name, tol), ids, i, name, tol)

AddEachRest(r, ids, i, name, tol) ==
    IF r.raised # "" THEN r ELSE AddEach(r.cl, ids, i + 1, name, tol)

\* tuple comparison of (length, width, height)
DimKeyLess(a, b) ==
    \/ a.length < b.length
    \/ a.length = b.length /\ a.width < b.width
    \/ a.length = b.length /\ a.width = b.width /\ a.height < b.height

\* str comparison of the material names that occur
MaterialRank(m) == CASE m = "Oak" -> 1 [] m = "Pine" -> 2 [] m = "Steel" -> 3

\* the three sort calls of sorted_items: does a's key sort strictly before b's?
KeyBefore(pass, a, b) ==
    CASE pass = "dimensions" -> DimKeyLess(b.dimensions, a.dimensions)   \* reverse=True
      [] pass = "count"      -> count(a) > count(b)                      \* reverse=True
      [] pass = "material"   -> MaterialRank(a.material) < MaterialRank(b.material)

\* list.sort(key=..., reverse=...) is stable, and keeps the order of equal
\* keys with reverse=True too
RECURSIVE InsertStable(_, _, _)
InsertStable(s, x, pass) ==
    IF s = << >> THEN <<x>>
    ELSE IF KeyBefore(pass, x, Head(s)) THEN <<x>> \o s
    ELSE <<Head(s)>> \o InsertStable(Tail(s), x, pass)

RECURSIVE ListSort(_, _)
ListSort(s, pass) ==
    IF s = << >> THEN << >>
    ELSE InsertStable(ListSort(SubSeq(s, 1, Len(s) - 1), pass), s[Len(s)], pass)

\* a faulty order of the sort calls: the primary key is sorted first
SortPassesReversed == <<"material", "count", "dimensions">>

\* the order of the three sort calls
SortPasses == <<"dimensions", "count", "material">>

\* CutList.sorted_items
sorted_items(self) ==
    ListSort(ListSort(ListSort(self.items, SortPasses[1]), SortPasses[2]), SortPasses[3])

-----------------------------------------------------------------------------
(* The command: CutlistCommandExecuteHandler.notify, one run at a time.    *)

\* the tolerances the user enters: 0 stands for the non-positive entries, then
\* the default (two body units) and three body units, wider than the spread
\* of the boxes of the design
ToleranceInputs == {0, DEFAULT_TOLERANCE, DEFAULT_TOLERANCE + Scale2}

NoCutList == [items |-> << >>]
NoFile == << >>
NoUi == [messageBox |-> "", saveDialog |-> FALSE, file |-> NoFile]

\* the values of the command inputs when the user presses OK; the tolerance
\* input accepts any number, 0 standing for the non-positive ones
Inputs ==
    [ ignoreHidden : BOOLEAN, ignoreExternal : BOOLEAN, ignoreMaterial : BOOLEAN,
      axisAligned : BOOLEAN, tolerance : ToleranceInputs ]

\* the selections: distinct entities, in the order they were picked
Selections ==
    UNION { { s \in [1 .. n -> Selectable] : \A i, j \in 1 .. n : i # j => s[i] # s[j] } :
            n \in 0 .. MaxSel }

\* module level: preferences and Dimensions.tolerance
Init ==
    /\ preferences = [ ignoreHidden |-> TRUE, ignoreExternal |-> FALSE,
                       ignoreMaterial |-> FALSE,
                       axisAligned |-> FALSE, tolerance |-> DEFAULT_TOLERANCE ]
    /\ tolerance = DEFAULT_TOLERANCE
    /\ cutlist = NoCutList
    /\ selection = << >>
    /\ idx = 0
    /\ pc = "idle"
    /\ ui = NoUi
    /\ input = << >>
    /\ output = << >>

\* set_preferences_from_inputs
set_preferences_from_inputs(inputs) ==
    [ ignoreHidden |-> inputs.ignoreHidden, ignoreExternal |-> inputs.ignoreExternal,
      ignoreMaterial |-> inputs.ignoreMaterial,
      axisAligned |-> inputs.axisAligned, tolerance |-> inputs.tolerance ]

\* notify, lines 299-309: the preferences, then Dimensions.tolerance
Execute(inputs) ==
    /\ pc = "idle"
    /\ preferences' = set_preferences_from_inputs(inputs)
    /\ tolerance' = IF preferences'.tolerance > 0 THEN preferences'.tolerance ELSE tolerance
    /\ pc' = "configured"
    /\ UNCHANGED <<cutlist, selection, idx, ui, input, output>>

\* notify, lines 311-318: a new CutList, and the selection input is read
Begin(sel) ==
    /\ pc = "configured"
    /\ cutlist' = CutList(preferences.ignoreHidden, preferences.ignoreMaterial,
                          preferences.ignoreExternal, preferences.axisAligned)
    /\ selection' = sel
    /\ idx' = 0
    /\ pc' = "adding"
    /\ UNCHANGED <<preferences, tolerance, ui, input, output>>

\* notify, lines 319-320: cutlist.add(selectionInput.selection(i).entity); an
\* exception leaves notify for report_errors, which shows the message box
AddSelected ==
    /\ pc = "adding"
    /\ idx < Len(selection)
    /\ LET r == add(cutlist, Design[selection[idx + 1]], NoName, tolerance)
       IN  /\ cutlist' = r.cl
           /\ IF r.raised # ""
              THEN /\ pc' = "done"
                   /\ idx' = idx
                   /\ ui' = [ui EXCEPT !.messageBox = "Failed"]
              ELSE /\ pc' = "adding"
                   /\ idx' = idx + 1
                   /\ ui' = ui
    /\ UNCHANGED <<preferences, tolerance, selection, input, output>>

\* Formatter.cutlist: one row per item, in the order of sorted_items (the
\* output format only changes how a row is written)
FormatterCutlist(cl) == sorted_items(cl)

\* notify, lines 322-343: the save dialog, then the file and the message
ShowSave(dialogOK) ==
    /\ pc = "adding"
    /\ idx = Len(selection)
    /\ pc' = "done"
    /\ ui' = IF dialogOK
             THEN [ messageBox |-> "Export complete", saveDialog |-> TRUE,
                    file |-> FormatterCutlist(cutlist) ]
             ELSE [ui EXCEPT !.saveDialog = TRUE]
    /\ UNCHANGED <<preferences, tolerance, cutlist, selection, idx, input, output>>

\* notify returns (or report_errors has shown its message): the locals are
\* gone, the module-level preferences and Dimensions.tolerance stay
Return ==
    /\ pc = "done"
    /\ pc' = "idle"
    /\ cutlist' = NoCutList
    /\ selection' = << >>
    /\ idx' = 0
    /\ ui' = NoUi
    /\ UNCHANGED <<preferences, tolerance, input, output>>

Next ==
    \/ \E inputs \in Inputs : Execute(inputs)
    \/ \E sel \in Selections : Begin(sel)
    \/ AddSelected
    \/ \E dialogOK \in BOOLEAN : ShowSave(dialogOK)
    \/ Return

Spec == Init /\ [][Next]_vars

-----------------------------------------------------------------------------
(* Claims about the cut list, checked under Spec *)

Kinds == {"adsk::fusion::BRepBody", "adsk::fusion::Occurrence", "adsk::fusion::Component"}

Running == pc \in {"adding", "done"}

NewName == <<"New">>

Eligible(cl, body) == body.isSolid /\ (body.isVisible \/ ~cl.ignorehidden)

RECURSIVE SumCounts(_, _)
SumCounts(items, i) == IF i > Len(items) THEN 0 ELSE count(items[i]) + SumCounts(items, i + 1)

\* the Dimensions add_body computes for the body (None if that raises)
BodyDimensions(cl, body) ==
    LET m == IF cl.axisaligned THEN MinimalBody(body, None)
             ELSE minimal_bodies[body.entityToken]
    IN  IF m.raised # "" THEN None ELSE from_body(m)

\* the items of cl that equal the body within tolerance (and in material, if
\* materials are grouped), stated without the loop of add_body
MatchingItems(cl, body, tol) ==
    LET d == BodyDimensions(cl, body)
    IN  { i \in 1 .. Len(cl.items) :
            /\ d # None
            /\ Abs(cl.items[i].dimensions.length - d.length) < tol
            /\ Abs(cl.items[i].dimensions.width - d.width) < tol
            /\ Abs(cl.items[i].dimensions.height - d.height) < tol
            /\ (cl.ignorematerial \/ cl.items[i].material = body.material) }

\* the claim of C1 for one body
FoldsIntoFirst(cl, body, tol) ==
    LET r == add_body(cl, body, NewName, tol)
        M == MatchingItems(cl, body, tol)
    IN  /\ r.raised = ""
        /\ IF M # {}
           THEN /\ Len(r.cl.items) = Len(cl.items)
                /\ \A i \in 1 .. Len(cl.items) :
                     r.cl.items[i] = IF i = Min(M)
                                     THEN [cl.items[i] EXCEPT !.names = Append(@, NewName)]
                                     ELSE cl.items[i]
           ELSE /\ Len(r.cl.items) = Len(cl.items) + 1
                /\ SubSeq(r.cl.items, 1, Len(cl.items)) = cl.items
                /\ r.cl.items[Len(r.cl.items)] =
                     [ names |-> <<NewName>>, dimensions |-> BodyDimensions(cl, body),
                       material |-> body.material ]

\* C1: in every CutList state, add_body of any eligible body appends its name
\* to the first matching item and changes nothing else, or, when no item
\* matches, appends one new item with count 1 at the end.
C1_FirstMatchWins ==
    Running =>
        \A b \in BodyIds : Eligible(cutlist, Design[b]) =>
            FoldsIntoFirst(cutlist, Design[b], tolerance)

\* C1 for the bodies whose minimal body can be computed: what remains of the
\* claim once get_minimal_body does not raise
C1_FirstMatchWinsUnlessRaised ==
    Running =>
        \A b \in BodyIds :
            (Eligible(cutlist, Design[b]) /\ BodyDimensions(cutlist, Design[b]) # None) =>
                FoldsIntoFirst(cutlist, Design[b], tolerance)

\* a body that matches two items has been appended to the first of them
C1_Witness ==
    /\ pc = "done"
    /\ Len(cutlist.items) >= 2
    /\ Cardinality(MatchingItems(cutlist, Design["b3"], tolerance)) >= 2
    /\ count(cutlist.items[1]) = 2
    /\ count(cutlist.items[2]) = 1

\* the CutList that notify() is about to construct
FreshCutList ==
    CutList(preferences.ignoreHidden, preferences.ignoreMaterial,
            preferences.ignoreExternal, preferences.axisAligned)

AddedTwice(cl, body, tol) ==
    LET r1 == add_body(cl, body, <<"first">>, tol)
    IN  IF r1.raised # "" THEN r1 ELSE add_body(r1.cl, body, <<"second">>, tol)

\* C2: with material grouping enabled, adding the same solid, visible body
\* twice to an empty CutList gives exactly one item, with count 2, for every
\* body and every tolerance.
C2_SameBodyTwice ==
    (pc = "configured" /\ ~preferences.ignoreMaterial) =>
        \A b \in BodyIds : (Design[b].isSolid /\ Design[b].isVisible) =>
            LET r == AddedTwice(FreshCutList, Design[b], tolerance)
            IN  /\ r.raised = ""
                /\ Len(r.cl.items) = 1
                /\ count(r.cl.items[1]) = 2

\* C2 for the bodies whose minimal body can be computed
C2_SameBodyTwiceUnlessRaised ==
    (pc = "configured" /\ ~preferences.ignoreMaterial) =>
        \A b \in BodyIds :
            (Design[b].isSolid /\ Design[b].isVisible
               /\ BodyDimensions(FreshCutList, Design[b]) # None) =>
            LET r == AddedTwice(FreshCutList, Design[b], tolerance)
            IN  /\ r.raised = ""
                /\ Len(r.cl.items) = 1
                /\ count(r.cl.items[1]) = 2

\* the bodies whose Dimensions add_body can compute under the preferences
Measurable == { b \in BodyIds : BodyDimensions(FreshCutList, Design[b]) # None }

\* b comes first, then c: the items of an empty CutList after both
AddedInTurn(cl, b, c, tol) ==
    LET r1 == add_body(cl, Design[b], <<"first">>, tol)
    IN  IF r1.raised # "" THEN r1 ELSE add_body(r1.cl, Design[c], <<"second">>, tol)

\* an AddSelected step keeps every existing item's material and dimensions
ItemsKeepIdentity ==
    (pc = "adding" /\ pc' \in {"adding", "done"}) =>
        /\ Len(cutlist'.items) >= Len(cutlist.items)
        /\ \A i \in 1 .. Len(cutlist.items) :
             /\ cutlist'.items[i].material = cutlist.items[i].material
             /\ cutlist'.items[i].dimensions = cutlist.items[i].dimensions

MergesAcrossMaterials ==
    (pc = "configured" /\ preferences.ignoreMaterial) =>
        \A b, c \in Measurable :
            LET cl == FreshCutList
                db == BodyDimensions(cl, Design[b])
                dc == BodyDimensions(cl, Design[c])
            IN  ( /\ Eligible(cl, Design[b]) /\ Eligible(cl, Design[c])
                  /\ Design[b].material # Design[c].material
                  /\ DimensionsEq(db, dc, tolerance) ) =>
                LET r == AddedInTurn(cl, b, c, tolerance)
                IN  /\ r.raised = ""
                    /\ Len(r.cl.items) = 1
                    /\ count(r.cl.items[1]) = 2
                    /\ r.cl.items[1].material = Design[b].material
                    /\ r.cl.items[1].dimensions = db

\* C3: with ignorematerial set, two bodies of equal Dimensions and different
\* materials become one item of count 2 that keeps the material (and the
\* dimensions) of the body seen first; and no step that adds entities changes
\* the material or the dimensions of an item that already exists.
C3_MaterialOfFirstSeen == [] MergesAcrossMaterials /\ [][ItemsKeepIdentity]_vars

\* the oak leg and the steel brace of the design have been merged, oak first
C3_Witness ==
    /\ pc = "done"
    /\ preferences.ignoreMaterial
    /\ selection = <<"c1">>
    /\ ui.messageBox # "Failed"
    /\ \E i \in 1 .. Len(cutlist.items) :
         /\ cutlist.items[i].material = "Oak"
         /\ \E j, k \in 1 .. count(cutlist.items[i]) :
              /\ j < k
              /\ cutlist.items[i].names[j] = <<"Frame", "/", "Leg">>
              /\ cutlist.items[i].names[k] = <<"Frame", "/", "Door", "/", "Brace">>

External == { o \in OccurrenceIds : Design[o].isReferencedComponent }

Prefix == <<"Top">>

\* the occurrence without its external children
WithoutExternal(obj) ==
    [obj EXCEPT !.childOccurrences = SelectSeq(@, LAMBDA o : o \notin External)]

\* the same occurrence, not referenced from another design
Internal(obj) == [obj EXCEPT !.isReferencedComponent = FALSE]

HasToken(name, t) == \E i \in 1 .. Len(name) : name[i] = t

\* C4: when ignoreexternal is set, add() of an external occurrence leaves the
\* items unchanged (none of its bodies, none of its descendants' bodies), also
\* when the occurrence is reached as a child of another one, so that no name
\* in the cut list ever passes through it; when ignoreexternal is not set the
\* occurrence is traversed like any other.
C4_ExternalSkipped ==
    /\ pc = "adding" =>
        /\ \A o \in External :
             LET r == add(cutlist, Design[o], Prefix, tolerance)
             IN  IF cutlist.ignoreexternal
                 THEN r.cl = cutlist /\ r.raised = ""
                 ELSE r = add(cutlist, Internal(Design[o]), Prefix, tolerance)
        /\ cutlist.ignoreexternal =>
             \A p \in OccurrenceIds \ External :
                add(cutlist, Design[p], Prefix, tolerance)
                  = add(cutlist, WithoutExternal(Design[p]), Prefix, tolerance)
    /\ (Running /\ cutlist.ignoreexternal) =>
        \A i \in 1 .. Len(cutlist.items) :
           \A j \in 1 .. count(cutlist.items[i]) :
              \A o \in External :
                 ~HasToken(cutlist.items[i].names[j], Design[o].componentName[1])

\* the external hinge was selected next to its parent, and only the parent's
\* own bodies are in the list
C4_Witness ==
    /\ pc = "done"
    /\ cutlist.ignoreexternal
    /\ selection = <<"o1", "o3">>
    /\ idx = 2
    /\ ui.messageBox # "Failed"
    /\ cutlist.items # << >>

Supported(e) == Design[e].objectType \in Kinds

\* C5: add_body folds a body into the cut list if and only if the body is
\* solid and (visible or ignorehidden is not set); any other body contributes
\* no name and no item.
C5_FoldedIffEligible ==
    Running =>
        \A b \in BodyIds :
            LET r == add_body(cutlist, Design[b], NewName, tolerance)
            IN  IF Eligible(cutlist, Design[b])
                THEN SumCounts(r.cl.items, 1) = SumCounts(cutlist.items, 1) + 1
                ELSE r.cl = cutlist /\ r.raised = ""

\* C5 for the bodies whose minimal body can be computed
C5_FoldedIffEligibleUnlessRaised ==
    Running =>
        \A b \in BodyIds : BodyDimensions(cutlist, Design[b]) # None =>
            LET r == add_body(cutlist, Design[b], NewName, tolerance)
            IN  IF Eligible(cutlist, Design[b])
                THEN SumCounts(r.cl.items, 1) = SumCounts(cutlist.items, 1) + 1
                ELSE r.cl = cutlist /\ r.raised = ""

\* C6: add() of an entity that is no body, occurrence or component raises
\* ValueError, and the export stops there: the selection is never processed
\* past that entity, an error is reported, no save dialog is shown and no file
\* is written, whatever was folded before.
C6_UnknownEntityAborts ==
    /\ Running =>
         \A e \in Selectable : ~Supported(e) =>
            add(cutlist, Design[e], Prefix, tolerance).raised = "ValueError"
    /\ \A i \in 1 .. Len(selection) : ~Supported(selection[i]) =>
         /\ idx < i
         /\ pc = "done" =>
              /\ ui.messageBox = "Failed"
              /\ ~ui.saveDialog
              /\ ui.file = NoFile

\* a body was folded, then the sketch line stopped the export
C6_Witness ==
    /\ pc = "done"
    /\ selection = <<"b1", "x1">>
    /\ idx = 1
    /\ Len(cutlist.items) = 1
    /\ ui.messageBox = "Failed"
    /\ ~ui.saveDialog

\* C11: the native bounding box of a body is used as it is, with no copy of
\* the solid and no transform, in exactly two cases: axis-aligned mode is set,
\* or the body has no planar face bounded by convex edges; in every other
\* case the box is the box of a transformed copy, or no box is produced.
C11_NativeBoxExactlyWhen ==
    pc = "configured" =>
        \A b \in BodyIds :
            LET m == minimal_body_of(FreshCutList, Design[b])
                native == \/ preferences.axisAligned
                          \/ find_largest_planar_convex_face(Design[b]) = None
            IN  IF native
                THEN /\ m.raised = ""
                     /\ ~m.copied
                     /\ m.boundingBox = Design[b].boundingBox
                ELSE m.raised # "" \/ m.copied

\* the capsule, which has no planar face, is in the list with the Dimensions
\* of its native box although axis-aligned mode is off
C11_Witness ==
    /\ pc = "done"
    /\ ~cutlist.axisaligned
    /\ ui.messageBox # "Failed"
    /\ \E i \in 1 .. Len(cutlist.items) :
         /\ cutlist.items[i].dimensions = from_body(MinimalBody(Design["b9"], None))
         /\ cutlist.items[i].names[1] = <<"Hinge", "/", "Bolt", "/", "Pin">>

\* the non-empty segments, with one separator between neighbours
RECURSIVE Joined(_)
Joined(segs) ==
    IF segs = << >> THEN << >>
    ELSE IF segs[1] = << >> THEN Joined(Tail(segs))
    ELSE IF Joined(Tail(segs)) = << >> THEN segs[1]
    ELSE segs[1] \o <<"/">> \o Joined(Tail(segs))

\* the bodies add() visits from entity e, each with the names on the way down
\* to it: the component names from e to the body, then the body's name
RECURSIVE BodyPaths(_, _, _)
BodyPaths(e, above, ignoreexternal) ==
    LET obj == Design[e] IN
    CASE obj.objectType = "adsk::fusion::BRepBody" ->
            { [body |-> e, path |-> Append(above, obj.name)] }
      [] obj.objectType = "adsk::fusion::Occurrence" ->
            IF obj.isReferencedComponent /\ ignoreexternal THEN {}
            ELSE { [body |-> obj.bRepBodies[k],
                    path |-> above \o <<obj.componentName, Design[obj.bRepBodies[k]].name>>] :
                       k \in 1 .. Len(obj.bRepBodies) }
                 \cup UNION { BodyPaths(obj.childOccurrences[k],
                                        Append(above, obj.componentName), ignoreexternal) :
                                 k \in 1 .. Len(obj.childOccurrences) }
      [] obj.objectType = "adsk::fusion::Component" ->
            { [body |-> obj.bRepBodies[k],
               path |-> above \o <<obj.name, Design[obj.bRepBodies[k]].name>>] :
                  k \in 1 .. Len(obj.bRepBodies) }
            \cup UNION { BodyPaths(obj.occurrences[k], Append(above, obj.name),
                                   ignoreexternal) :
                            k \in 1 .. Len(obj.occurrences) }
      [] OTHER -> {}

NamesIn(items) ==
    UNION { { items[i].names[j] : j \in 1 .. Len(items[i].names) } : i \in 1 .. Len(items) }

\* a name has no separator at either end and no two separators in a row
WellFormedName(name) ==
    /\ name # << >> => name[1] # "/" /\ name[Len(name)] # "/"
    /\ \A k \in 1 .. Len(name) - 1 : ~(name[k] = "/" /\ name[k + 1] = "/")

NameParts == { << >>, <<"A">>, <<"B", "/", "C">> }

\* C12: the name recorded for a body that add() reaches is the caller's
\* prefix, the component names on the path from the added entity down to the
\* body, root first, and the body's name, joined by the separator; empty or
\* missing segments are left out, so that no name starts or ends with a
\* separator or holds two in a row.
C12_PathNames ==
    /\ pc = "configured" =>
         /\ \A e \in Selectable, prefix \in {NoName, Prefix} : Supported(e) =>
              LET cl == FreshCutList
                  r == add(cl, Design[e], prefix, tolerance)
                  P == BodyPaths(e, <<prefix>>, cl.ignoreexternal)
              IN  /\ NamesIn(r.cl.items) \subseteq { Joined(p.path) : p \in P }
                  /\ r.raised = "" =>
                        NamesIn(r.cl.items)
                          = { Joined(p.path) : p \in { q \in P : Eligible(cl, Design[q.body]) } }
         /\ \A a, b, c \in NameParts :
              /\ _joinname(FreshCutList, <<a, b, c>>) = Joined(<<a, b, c>>)
              /\ _joinname(FreshCutList, <<a, b>>) = Joined(<<a, b>>)
              /\ WellFormedName(_joinname(FreshCutList, <<a, b, c>>))
    /\ Running =>
         \A n \in NamesIn(cutlist.items) :
            /\ WellFormedName(n)
            /\ \E k \in 1 .. Len(selection) :
                 /\ k <= idx + 1
                 /\ \E p \in BodyPaths(selection[k], << >>, cutlist.ignoreexternal) :
                      n = Joined(p.path)

\* the component was selected: a body four levels down carries the whole
\* path, and the name starts with the component, not with a separator
C12_Witness ==
    /\ pc = "done"
    /\ selection = <<"c1">>
    /\ ui.messageBox # "Failed"
    /\ <<"Frame", "/", "Door", "/", "Hinge", "/", "Bolt", "/", "Leg">>
         \in NamesIn(cutlist.items)

\* the items of the first execution of the command after the add-in is
\* loaded, with the options and the selection of the execution under way
FirstExecutionItems ==
    AddEach(FreshCutList, selection, 1, NoName,
            IF preferences.tolerance > 0 THEN preferences.tolerance
            ELSE DEFAULT_TOLERANCE).cl.items

\* the loop over the selection has come to its end
Traversed == pc = "adding" /\ idx = Len(selection)

\* C14: the items of an export depend on its own options and selection only:
\* whatever executions came before, they are the items that the very first
\* execution produces with the same options (the entered tolerance among
\* them) and the same selection; no tolerance is carried over.
C14_Stateless == Traversed => cutlist.items = FirstExecutionItems

\* C14 for the executions in which a positive tolerance was entered
C14_StatelessWhenToleranceEntered ==
    (Traversed /\ preferences.tolerance > 0) => cutlist.items = FirstExecutionItems

\* the eligible bodies add() visits from entity e
EligibleVisited(cl, e) ==
    { p \in BodyPaths(e, << >>, cl.ignoreexternal) : Eligible(cl, Design[p.body]) }

\* every item of `before` is still there, in its place, its names still the
\* first names of the item
Extends(after, before) ==
    /\ Len(after) >= Len(before)
    /\ \A i \in 1 .. Len(before) :
         /\ after[i].material = before[i].material
         /\ after[i].dimensions = before[i].dimensions
         /\ Len(after[i].names) >= Len(before[i].names)
         /\ SubSeq(after[i].names, 1, Len(before[i].names)) = before[i].names

AllCounted(items) == \A i \in 1 .. Len(items) : count(items[i]) >= 1

\* C18: whatever was added before, every item has a count of at least 1, and
\* an add() call raises the sum of the counts by the number of eligible bodies
\* it visits (solid, not left out as hidden, not under an external occurrence
\* that is left out): each of them gives one name to one item; the call
\* removes and reorders no item and no name.  (For a call that an exception
\* ends the bodies visited are known when the entity is a body itself.)
C18_CountsAddUp ==
    pc = "adding" =>
        /\ AllCounted(cutlist.items)
        /\ \A e \in Selectable : Supported(e) =>
             LET r == add(cutlist, Design[e], NoName, tolerance)
             IN  /\ AllCounted(r.cl.items)
                 /\ Extends(r.cl.items, cutlist.items)
                 /\ (r.raised = "" \/ e \in BodyIds) =>
                       SumCounts(r.cl.items, 1)
                         = SumCounts(cutlist.items, 1)
                             + Cardinality(EligibleVisited(cutlist, e))

\* C18 for the calls that return
C18_CountsAddUpUnlessRaised ==
    pc = "adding" =>
        /\ AllCounted(cutlist.items)
        /\ \A e \in Selectable : Supported(e) =>
             LET r == add(cutlist, Design[e], NoName, tolerance)
             IN  /\ AllCounted(r.cl.items)
                 /\ Extends(r.cl.items, cutlist.items)
                 /\ r.raised = "" =>
                       SumCounts(r.cl.items, 1)
                         = SumCounts(cutlist.items, 1)
                             + Cardinality(EligibleVisited(cutlist, e))

-----------------------------------------------------------------------------
(* Dimensions on its own: a Dimensions object from any three extents, then  *)
(* a second one to compare it with, under any positive tolerance.          *)

MaxExtent == 3
MaxTol == 2

Extents == 0 .. MaxExtent

\* the command's variables while a function is looked at on its own
CommandIdle ==
    /\ preferences = [ ignoreHidden |-> TRUE, ignoreExternal |-> FALSE,
                       ignoreMaterial |-> FALSE,
                       axisAligned |-> FALSE, tolerance |-> DEFAULT_TOLERANCE ]
    /\ cutlist = NoCutList
    /\ selection = << >>
    /\ idx = 0
    /\ ui = NoUi

InitDims ==
    /\ CommandIdle
    /\ pc = "Dimensions"
    /\ tolerance \in 1 .. MaxTol
    /\ input \in Extents \X Extents \X Extents
    /\ output = << >>

\* self = Dimensions(x, y, z)
NewDimensions ==
    /\ pc = "Dimensions"
    /\ output = << >>
    /\ output' = << Dimensions(input[1], input[2], input[3]) >>
    /\ UNCHANGED <<preferences, tolerance, cutlist, selection, idx, pc, ui, input>>

\* other = Dimensions(x, y, z), for self == other
OtherDimensions(x, y, z) ==
    /\ pc = "Dimensions"
    /\ Len(output) = 1
    /\ output' = Append(output, Dimensions(x, y, z))
    /\ UNCHANGED <<preferences, tolerance, cutlist, selection, idx, pc, ui, input>>

NextDims ==
    \/ NewDimensions
    \/ \E x, y, z \in Extents : OtherDimensions(x, y, z)

SpecDims == InitDims /\ [][NextDims]_vars

-----------------------------------------------------------------------------
(* sorted_items on its own: any list of items, each carrying its position  *)
(* in the list as its names, so that equal keys stay distinguishable.      *)

MaxItems == 3

SortDims == { Dimensions(3, 2, 1), Dimensions(3, 1, 1), Dimensions(2, 2, 2) }

SortKeys == [ dimensions : SortDims, material : {"Oak", "Steel"}, n : 1 .. 2 ]

\* the item with key k at position i of the list
Tagged(k, i) ==
    [ names |-> [j \in 1 .. k.n |-> <<i>>], dimensions |-> k.dimensions,
      material |-> k.material ]

\* the list of the items with keys ks
ItemList(ks) == [i \in DOMAIN ks |-> Tagged(ks[i], i)]

InitSort ==
    /\ CommandIdle
    /\ pc = "sorted_items"
    /\ tolerance = DEFAULT_TOLERANCE
    /\ \E n \in 0 .. MaxItems : \E ks \in [1 .. n -> SortKeys] : input = ItemList(ks)
    /\ output = << >>

ApplySort ==
    /\ pc = "sorted_items"
    /\ output = << >>
    /\ output' = << sorted_items([items |-> input]) >>
    /\ UNCHANGED <<preferences, tolerance, cutlist, selection, idx, pc, ui, input>>

NextSort == ApplySort

SpecSort == InitSort /\ [][NextSort]_vars

-----------------------------------------------------------------------------
(* get_minimal_body on its own: one solid, placed in the design twice.     *)

Shapes ==
    [ board   |-> BoxShape(10, 5, 2),
      plate   |-> BoxShape(5, 5, 2),
      knob    |-> SplinePrismShape(3),
      peg     |-> SkewCylinderShape(2, 5, 3),
      capsule |-> CapsuleShape(6, 2),
      arch    |-> ArchShape(8, 5, 2) ]

Placed(shape, pose) == BRepBody(shape, <<"Body">>, TRUE, TRUE, "Oak", Shapes[shape], pose)

InitGeom ==
    /\ CommandIdle
    /\ pc = "get_minimal_body"
    /\ tolerance = DEFAULT_TOLERANCE
    /\ input \in [ shape : DOMAIN Shapes, first : PoseNames, second : PoseNames ]
    /\ output = << >>

ApplyMinimal ==
    /\ pc = "get_minimal_body"
    /\ output = << >>
    /\ output' = << get_minimal_body(Placed(input.shape, input.first)),
                    get_minimal_body(Placed(input.shape, input.second)) >>
    /\ UNCHANGED <<preferences, tolerance, cutlist, selection, idx, pc, ui, input>>

NextGeom == ApplyMinimal

SpecGeom == InitGeom /\ [][NextGeom]_vars

-----------------------------------------------------------------------------
(* find_largest_planar_convex_face on its own: any short list of faces over *)
(* three edges, of which the first two are convex.  The host hands out a   *)
(* new object for an edge each time it is asked, so an edge taken from a   *)
(* loop and the same edge taken from body.convexEdges differ as objects.   *)

MaxFaces == 3

\* the edge with this tempId, as the object got from collection `from`
EdgeObject(id, from) ==
    Edge(id, "Line3DCurveType", 1, ZeroVec, ZeroVec, ZeroVec, ZeroVec) @@ [handle |-> from]

\* the loops a face can have: outer loop of convex edges; outer loop with an
\* edge that is not convex; convex outer loop around a hole that is not
LoopChoices ==
    { << Loop(TRUE, <<EdgeObject(1, "loop"), EdgeObject(2, "loop")>>) >>,
      << Loop(TRUE, <<EdgeObject(1, "loop"), EdgeObject(3, "loop")>>) >>,
      << Loop(TRUE, <<EdgeObject(1, "loop")>>), Loop(FALSE, <<EdgeObject(3, "loop")>>) >> }

FaceChoices ==
    { Face(t, a, ZeroVec, ls) :
        t \in {"PlaneSurfaceType", "CylinderSurfaceType"}, a \in 1 .. 2, ls \in LoopChoices }

\* the body with faces fs, the i-th face knowing its place
FaceBody(fs) ==
    [ faces |-> [i \in DOMAIN fs |-> fs[i] @@ [tempId |-> i]],
      convexEdges |-> <<EdgeObject(1, "convexEdges"), EdgeObject(2, "convexEdges")>> ]

InitFace ==
    /\ CommandIdle
    /\ pc = "find_largest_planar_convex_face"
    /\ tolerance = DEFAULT_TOLERANCE
    /\ \E n \in 0 .. MaxFaces : \E fs \in [1 .. n -> FaceChoices] : input = FaceBody(fs)
    /\ output = << >>

ApplyLargestFace ==
    /\ pc = "find_largest_planar_convex_face"
    /\ output = << >>
    /\ output' = << find_largest_planar_convex_face(input) >>
    /\ UNCHANGED <<preferences, tolerance, cutlist, selection, idx, pc, ui, input>>

NextFace == ApplyLargestFace

SpecFace == InitFace /\ [][NextFace]_vars

-----------------------------------------------------------------------------
(* find_longest_orientable_edge on its own: a face with any short list of  *)
(* edges; from the second edge on, the last one bounds a hole.             *)

MaxEdges == 3

CurveTypes == OrientableTypes \cup {"NurbsCurve3DCurveType"}

EdgeChoices == [ curveType : CurveTypes, length : 1 .. 2 ]

\* the face with the edges chosen in cs, the k-th edge with tempId k
EdgeFace(cs) ==
    LET n == Len(cs)
        es == [k \in 1 .. n |->
                 Edge(k, cs[k].curveType, cs[k].length, ZeroVec, ZeroVec, ZeroVec, ZeroVec)]
    IN  Face("PlaneSurfaceType", 1, ZeroVec,
             IF n < 2 THEN << Loop(TRUE, es) >>
             ELSE << Loop(TRUE, SubSeq(es, 1, n - 1)), Loop(FALSE, <<es[n]>>) >>)

InitEdge ==
    /\ CommandIdle
    /\ pc = "find_longest_orientable_edge"
    /\ tolerance = DEFAULT_TOLERANCE
    /\ \E n \in 0 .. MaxEdges : \E cs \in [1 .. n -> EdgeChoices] : input = EdgeFace(cs)
    /\ output = << >>

ApplyLongestEdge ==
    /\ pc = "find_longest_orientable_edge"
    /\ output = << >>
    /\ output' = << find_longest_orientable_edge(input) >>
    /\ UNCHANGED <<preferences, tolerance, cutlist, selection, idx, pc, ui, input>>

NextEdge == ApplyLongestEdge

SpecEdge == InitEdge /\ [][NextEdge]_vars

-----------------------------------------------------------------------------
(* Claims about the pure functions *)

\* the sort key of an item, smaller first: material ascending, count
\* descending, dimensions descending
SortsBefore(a, b) ==
    \/ MaterialRank(a.material) < MaterialRank(b.material)
    \/ /\ a.material = b.material
       /\ \/ Len(a.names) > Len(b.names)
          \/ /\ Len(a.names) = Len(b.names)
             /\ \/ a.dimensions.length > b.dimensions.length
                \/ /\ a.dimensions.length = b.dimensions.length
                   /\ \/ a.dimensions.width > b.dimensions.width
                      \/ /\ a.dimensions.width = b.dimensions.width
                         /\ a.dimensions.height > b.dimensions.height

SameKey(a, b) ==
    a.material = b.material /\ Len(a.names) = Len(b.names) /\ a.dimensions = b.dimensions

\* the position an item had in the input list
Position(item) == item.names[1][1]

\* C7: sorted_items returns the items ordered by material ascending, then
\* count descending, then (length, width, height) descending; items equal on
\* all three keys keep the order they had in the list; the list itself is not
\* changed, so a second call returns the same order.
C7_SortedItems ==
    (pc = "sorted_items" /\ output # << >>) =>
        LET out == output[1] IN
        /\ Len(out) = Len(input)
        /\ { out[i] : i \in 1 .. Len(out) } = { input[i] : i \in 1 .. Len(input) }
        /\ \A i, j \in 1 .. Len(out) : i < j =>
             \/ SortsBefore(out[i], out[j])
             \/ SameKey(out[i], out[j]) /\ Position(out[i]) < Position(out[j])
        /\ sorted_items([items |-> input]) = out

\* three items on one key, behind an item that has to move to the front
C7_Witness ==
    /\ pc = "sorted_items"
    /\ output # << >>
    /\ Len(input) = 3
    /\ SameKey(input[1], input[3])
    /\ SortsBefore(input[2], input[1])
    /\ output[1] = << input[2], input[1], input[3] >>

Permutations3 == { <<1, 2, 3>>, <<1, 3, 2>>, <<2, 1, 3>>, <<2, 3, 1>>, <<3, 1, 2>>, <<3, 2, 1>> }

\* C8: a Dimensions object has length >= width >= height, the three are the
\* three extents it was built from, and the object does not depend on the
\* order in which the extents were given.
C8_DimensionsSorted ==
    (pc = "Dimensions" /\ output # << >>) =>
        LET d == output[1] IN
        /\ d.length >= d.width /\ d.width >= d.height
        /\ \E p \in Permutations3 :
             d = [length |-> input[p[1]], width |-> input[p[2]], height |-> input[p[3]]]
        /\ \A p \in Permutations3 : Dimensions(input[p[1]], input[p[2]], input[p[3]]) = d

\* three different extents, given in neither ascending nor descending order
C8_Witness ==
    /\ pc = "Dimensions"
    /\ Len(output) >= 1
    /\ input[1] < input[3] /\ input[3] < input[2]
    /\ output[1] = [length |-> input[2], width |-> input[3], height |-> input[1]]

\* Dimensions.tolerance stays positive in the command, whatever is entered
TolerancePositive == tolerance > 0

\* C9: Dimensions equality is reflexive and symmetric for every tolerance the
\* program can run with (a positive one, see TolerancePositive).
C9_ReflexiveSymmetric ==
       (pc = "Dimensions" /\ Len(output) = 2) =>
         /\ DimensionsEq(output[1], output[1], tolerance)
         /\ DimensionsEq(output[2], output[2], tolerance)
         /\ DimensionsEq(output[1], output[2], tolerance)
              <=> DimensionsEq(output[2], output[1], tolerance)

\* C9, not transitive: A == B and B == C for some C, yet not A == C
C9_Witness ==
    /\ pc = "Dimensions"
    /\ Len(output) = 2
    /\ DimensionsEq(output[1], output[2], tolerance)
    /\ output[1] # output[2]
    /\ \E x, y, z \in Extents :
         /\ DimensionsEq(output[2], Dimensions(x, y, z), tolerance)
         /\ ~DimensionsEq(output[1], Dimensions(x, y, z), tolerance)

HasPlanarConvexFace(body) == find_largest_planar_convex_face(body) # None

\* C10: for one solid placed twice, the two placements differing by a rigid
\* rotation, and the solid having a planar face bounded by convex edges,
\* the bounding boxes that get_minimal_body returns have Dimensions that are
\* equal within the tolerance.
C10_RotationInvariant ==
    (pc = "get_minimal_body" /\ output # << >>
       /\ HasPlanarConvexFace(Placed(input.shape, input.first))
       /\ HasPlanarConvexFace(Placed(input.shape, input.second))
       /\ output[1].raised = "" /\ output[2].raised = "") =>
        DimensionsEq(from_body(output[1]), from_body(output[2]), tolerance)

\* C10 for the solids whose reference edge is a straight line
C10_RotationInvariantOnLines ==
    (pc = "get_minimal_body" /\ output # << >>
       /\ input.shape \in {"board", "plate"}) =>
        /\ output[1].raised = ""
        /\ output[2].raised = ""
        /\ output[1].copied /\ output[2].copied
        /\ from_body(output[1]) = from_body(output[2])

\* get_minimal_body returns for every solid with a planar convex face
C10_AlwaysReturns ==
    (pc = "get_minimal_body" /\ output # << >>) =>
        output[1].raised = "" /\ output[2].raised = ""

\* the reference face of the body has no edge with an orientation
NoOrientableEdge(body) ==
    /\ HasPlanarConvexFace(body)
    /\ find_longest_orientable_edge(find_largest_planar_convex_face(body)) = None

\* what get_minimal_body is to return with the world X axis as orientation
BoxAlongWorldX(body) ==
    LET normal == find_largest_planar_convex_face(body).normal
    IN  TransformedCopyBox(body, target_x, normalize(crossProduct(target_x, normal)), normal)

\* C13: when the reference face has no orientable edge, get_minimal_body takes
\* the world X axis as the orientation and returns normally, with the
\* bounding box of the transformed copy; it does not fail.
C13_WorldXDefault ==
    (pc = "get_minimal_body" /\ output # << >>
       /\ NoOrientableEdge(Placed(input.shape, input.first))) =>
        /\ output[1].raised = ""
        /\ output[1].copied
        /\ output[1].boundingBox = BoxAlongWorldX(Placed(input.shape, input.first))

\* the curve types of the edges of the body's reference face
ReferenceEdgeTypes(body) ==
    LET es == FaceEdges(find_largest_planar_convex_face(body))
    IN  { es[k].curveType : k \in 1 .. Len(es) }

\* C15: an edge whose curve type has no orientation heuristic never makes
\* get_minimal_body fail: the reference edge that is chosen is never such an
\* edge, so that get_edge_orientation is asked for orientable curve types
\* only, and a reference face with no other edges gets the default axis.
C15_UnsupportedEdgesSkipped ==
    (pc = "get_minimal_body" /\ output # << >>
       /\ HasPlanarConvexFace(Placed(input.shape, input.first))
       /\ ReferenceEdgeTypes(Placed(input.shape, input.first)) \ OrientableTypes # {}) =>
        LET body == Placed(input.shape, input.first)
            edge == find_longest_orientable_edge(find_largest_planar_convex_face(body))
        IN  /\ output[1].raised = ""
            /\ edge # None => edge.curveType \in OrientableTypes
            /\ edge = None => output[1].boundingBox = BoxAlongWorldX(body)

\* C15, the part about get_edge_orientation: it never raises its ValueError,
\* and next to an edge with an orientation the unsupported edge is passed over
C15_NoValueError ==
    (pc = "get_minimal_body" /\ output # << >>) =>
        /\ output[1].raised # "ValueError"
        /\ input.shape = "arch" =>
             /\ output[1].raised = "" /\ output[1].copied
             /\ from_body(output[1]) = from_body(output[2])

\* face f of the body is planar and every edge of its outer loops has the
\* tempId of a convex edge of the body
Qualifies(body, f) ==
    /\ f.surfaceType = "PlaneSurfaceType"
    /\ \A l \in 1 .. Len(f.loops) : f.loops[l].isOuter =>
         \A k \in 1 .. Len(f.loops[l].edges) :
            \E c \in 1 .. Len(body.convexEdges) :
               body.convexEdges[c].tempId = f.loops[l].edges[k].tempId

\* C16: find_largest_planar_convex_face returns a face of the body that is
\* planar with all its outer-loop edges among the convex edges (by edge id);
\* no face of that kind has a larger area, and none of the same area comes
\* earlier in the face order; it returns None exactly when no face is of that
\* kind.
C16_LargestPlanarConvexFace ==
    (pc = "find_largest_planar_convex_face" /\ output # << >>) =>
        LET Q == { i \in 1 .. Len(input.faces) : Qualifies(input, input.faces[i]) }
        IN  IF Q = {} THEN output[1] = None
            ELSE \E i \in Q :
                   /\ output[1] = input.faces[i]
                   /\ \A j \in Q : input.faces[j].area <= input.faces[i].area
                   /\ \A j \in Q : input.faces[j].area = input.faces[i].area => i <= j

\* a larger face that does not qualify comes first, then two qualifying faces
\* of one area, the second of them around a hole with an edge that is not
\* convex: the first of the two is returned
C16_Witness ==
    /\ pc = "find_largest_planar_convex_face"
    /\ output # << >>
    /\ Len(input.faces) = 3
    /\ ~Qualifies(input, input.faces[1]) /\ input.faces[1].area = 2
    /\ input.faces[1].surfaceType = "PlaneSurfaceType"
    /\ Qualifies(input, input.faces[2]) /\ input.faces[2].area = 1
    /\ Qualifies(input, input.faces[3]) /\ input.faces[3].area = 1
    /\ Len(input.faces[3].loops) = 2
    /\ output[1] = input.faces[2]

\* the edges of all the loops of a face
EdgesOf(face) ==
    UNION { { face.loops[l].edges[k] : k \in 1 .. Len(face.loops[l].edges) } :
            l \in 1 .. Len(face.loops) }

Straight == {"Line3DCurveType", "InfiniteLine3DCurveType"}
Curved == {"Arc3DCurveType", "Circle3DCurveType", "Ellipse3DCurveType",
           "EllipticalArc3DCurveType"}

\* e is an edge of the set E, and none of E is longer
LongestOf(e, E) == e \in E /\ \A x \in E : x.length <= e.length

=============================================================================
